---- MODULE Spec2Model ----
(***************************************************************************)
(* A model of tourist-core: the Tourist class of src/src/tourist.ts (the   *)
(* revision with stop ids, TouristError codes and the GitProvider), the    *)
(* FileChanges line-delta engine and the git-backed version provider.      *)
(*                                                                         *)
(* A repository holds one tracked file.  A file's content is a set of      *)
(* line identities kept in ascending order, so the minimal diff between    *)
(* two contents is unique: the common lines are the intersection.          *)
(***************************************************************************)
EXTENDS Integers, Sequences, FiniteSets, TLC

\* ---------------------------------------------------------------- bounds
MaxLineId == 5
MaxCommits == 2
MaxStops == 2
MaxGen == 2
MaxEdits == 2
MaxDeltaLine == 3
MaxMoves == 1
MaxCalls == 2
MaxPathLen == 6
MaxTourLen == 3
MaxRaceCommits == 3

\* ------------------------------------------------------------- constants
\* git diff prints three lines of context around each change (no -U given)
DiffContext == 3
\* JavaScript null, kept apart from every line number the model can reach
Null == -99
\* a call that returned without throwing
OK == -1
\* an exception that is no TouristError (a rejected git subprocess)
ExecError == 999
\* a plain Error, thrown with no code
PlainError == 998

Repos == {"r1", "r2"}
Names == {"f", "g"}
NoFile == "none"
DevNull == "/dev/null"
Outside == [repo |-> "outside", name |-> "f"]
LineIds == 1..MaxLineId

\* ------------------------------------------------------------- utilities
Range(s) == {s[i] : i \in DOMAIN s}

Includes(s, x) == \E i \in DOMAIN s : s[i] = x

\* const v = ...; the rest of the block reads v
With(v, Rest(_)) == Rest(v)

RECURSIVE SetToSeq(_)
\* the elements of a finite set of integers in ascending order
SetToSeq(S) ==
  IF S = {} THEN <<>>
  ELSE LET m == CHOOSE x \in S : \A y \in S : x <= y
       IN <<m>> \o SetToSeq(S \ {m})

\* Number(null) is 0 in JavaScript arithmetic and comparisons
ToNumber(x) == IF x = Null THEN 0 ELSE x

\* the decimal digits of a number, as Array.prototype.sort compares them
Digits(n) == IF n < 10 THEN <<n>> ELSE <<n \div 10, n % 10>>

\* a < b as strings: the default comparison of Array.prototype.sort
StrLess(a, b) ==
  LET da == Digits(a)
      db == Digits(b)
  IN  IF da[1] # db[1] THEN da[1] < db[1]
      ELSE IF Len(da) # Len(db) THEN Len(da) < Len(db)
      ELSE Len(da) = 2 /\ da[2] < db[2]

RECURSIVE JsInsert(_, _)
JsInsert(s, x) ==
  IF s = <<>> THEN <<x>>
  ELSE IF StrLess(x, Head(s)) THEN <<x>> \o s
  ELSE <<Head(s)>> \o JsInsert(Tail(s), x)

RECURSIVE JsSort(_)
\* Array.prototype.sort() without a comparator: ascending by string value
JsSort(s) == IF s = <<>> THEN <<>> ELSE JsInsert(JsSort(Tail(s)), Head(s))

\* ------------------------------------------------------------ FileChanges
\* moves is a Map: a sequence of <<key, value>> entries with distinct keys
MapHas(m, k) == \E i \in DOMAIN m : m[i][1] = k

MapGet(m, k) == m[CHOOSE i \in DOMAIN m : m[i][1] = k][2]

FileChanges(additions, deletions, moves, name) ==
  [additions |-> additions, deletions |-> deletions, moves |-> moves,
   name |-> name]

RECURSIVE ShiftLoop(_, _, _)
\* for (const x of sorted) { if (x < line) line++; else break; }
ShiftLoop(sorted, i, line) ==
  IF i > Len(sorted) THEN line
  ELSE IF sorted[i] < line THEN ShiftLoop(sorted, i + 1, line + 1)
  ELSE line

\* computeDelta without the test for a deleted line
computeDeltaSkipsDeletions(changes, line) ==
  IF MapHas(changes.moves, line) THEN MapGet(changes.moves, line)
  ELSE ShiftLoop(JsSort(changes.additions), 1,
                 line - Len(changes.deletions))

\* computeDelta that looks a line up in moves before it looks in deletions
computeDeltaMovesFirst(changes, line) ==
  IF MapHas(changes.moves, line) THEN MapGet(changes.moves, line)
  ELSE IF Includes(changes.deletions, line) THEN Null
  ELSE ShiftLoop(JsSort(changes.additions), 1,
                 ToNumber(line) - Len(changes.deletions))

\* computeDelta that gives up on a line the diff does not print
computeDeltaMovesOnly(changes, line) ==
  IF Includes(changes.deletions, line) THEN Null
  ELSE IF MapHas(changes.moves, line) THEN MapGet(changes.moves, line)
  ELSE Null

computeDelta(changes, line) ==
  IF Includes(changes.deletions, line) THEN Null
  ELSE IF MapHas(changes.moves, line) THEN MapGet(changes.moves, line)
  ELSE ShiftLoop(JsSort(changes.additions), 1,
                 ToNumber(line) - Len(changes.deletions))

\* moves.forEach((before, after) => copy.set(after, before)): forEach hands
\* the callback (value, key), so the copy maps key to value like the original
ForEachCopy(m) == [i \in DOMAIN m |-> <<m[i][1], m[i][2]>>]

undoDelta(changes, line) ==
  LET moves == ForEachCopy(changes.moves)
  IN  IF Includes(changes.additions, line) THEN Null
      ELSE IF MapHas(moves, line) THEN MapGet(moves, line)
      ELSE ShiftLoop(JsSort(changes.deletions), 1,
             ToNumber(line)
               - Cardinality({i \in DOMAIN changes.additions :
                                changes.additions[i] < ToNumber(line)}))

\* ------------------------------------------------------------- the world
VARIABLES
  config,        \* the repositories mapped to a root (RepoIndex)
  gitOK,         \* the repositories whose git subprocess answers
  history,       \* per repository, the committed trees; HEAD is the last
  wc,            \* per repository, the working copy of its file
  edits,         \* working-copy edits made so far
  stops,         \* tf.stops
  repositories,  \* tf.repositories
  generator,     \* tf.generator
  last           \* the last call: its name, inputs, outcome and the tf before

vars == <<config, gitOK, history, wc, edits, stops, repositories, generator,
          last>>

world == <<config, gitOK, history, wc, edits>>

NoTree == [name |-> NoFile, lines |-> {}]

Tree(name, lines) == [name |-> name, lines |-> lines]

\* the 1-based number of line x in content S
LineNo(S, x) == Cardinality({y \in S : y <= x})

\* String.prototype.split("\n").length of a file without trailing newline
FileLineCount(S) == IF S = {} THEN 1 ELSE Cardinality(S)

HeadOf(r) == Len(history[r])

\* git rev-parse HEAD, trimmed; null when the subprocess fails
getCurrentVersion(r) == IF r \in gitOK THEN HeadOf(r) ELSE Null

\* a common line is printed as context when fewer than DiffContext common
\* lines separate it from a changed line
InContext(S, T, c) ==
  \E x \in (S \ T) \cup (T \ S) :
    Cardinality({y \in S \cap T : (x < y /\ y < c) \/ (c < y /\ y < x)})
      < DiffContext

\* git diff -M pairs a removed and an added path whose contents are at
\* least half alike
Similar(S, T) ==
  LET big == IF Cardinality(S) >= Cardinality(T) THEN Cardinality(S)
             ELSE Cardinality(T)
  IN  2 * Cardinality(S \cap T) >= big

DiffEntry(from, to, S, T) == [from |-> from, to |-> to, old |-> S, new |-> T]

\* parseDiff(git diff ...): the files of the diff from tree a to tree b
ParseDiff(a, b) ==
  IF a.name = NoFile THEN
    IF b.name = NoFile THEN <<>>
    ELSE <<DiffEntry(DevNull, b.name, {}, b.lines)>>
  ELSE IF b.name = NoFile THEN <<DiffEntry(a.name, DevNull, a.lines, {})>>
  ELSE IF a.name = b.name THEN
    IF a.lines = b.lines THEN <<>>
    ELSE <<DiffEntry(a.name, a.name, a.lines, b.lines)>>
  ELSE IF Similar(a.lines, b.lines) THEN
    <<DiffEntry(a.name, b.name, a.lines, b.lines)>>
  ELSE <<DiffEntry(a.name, DevNull, a.lines, {}),
         DiffEntry(DevNull, b.name, {}, b.lines)>>

\* the working tree as git diff <commit> sees it: a file that is not in the
\* index is untracked, and the indexed file is then missing
TrackedWorkingTree(r) ==
  IF wc[r].name = history[r][HeadOf(r)].name THEN wc[r] ELSE NoTree

\* the chunk loop of getGenericChangesForFile over one file of the diff
ChangesOfEntry(e) ==
  With(SetToSeq({c \in e.old \cap e.new : InContext(e.old, e.new, c)}),
       LAMBDA ctx :
         FileChanges(
           SetToSeq({LineNo(e.new, x) : x \in e.new \ e.old}),
           SetToSeq({LineNo(e.old, x) : x \in e.old \ e.new}),
           [i \in DOMAIN ctx |->
              <<LineNo(e.old, ctx[i]), LineNo(e.new, ctx[i])>>],
           e.to))

getGenericChangesForFile(commit, path, r, includeWorkingCopy) ==
  With(ParseDiff(history[r][commit],
                 IF includeWorkingCopy THEN TrackedWorkingTree(r)
                 ELSE history[r][HeadOf(r)]),
       LAMBDA files :
         IF \E i \in DOMAIN files : files[i].from = path
         THEN ChangesOfEntry(
                files[CHOOSE i \in DOMAIN files :
                        /\ files[i].from = path
                        /\ \A j \in DOMAIN files :
                             files[j].from = path => i <= j])
         ELSE FileChanges(<<>>, <<>>, <<>>, path))

getChangesForFile(commit, path, r) ==
  getGenericChangesForFile(commit, path, r, FALSE)

getDirtyChangesForFile(commit, path, r) ==
  getGenericChangesForFile(commit, path, r, TRUE)

\* ------------------------------------------------------------ DiffCache
\* cache.start(): this.cache = new Map()
DiffCacheStart == [started |-> TRUE, entries |-> <<>>]

\* the constructor and cache.invalidate(): this.cache = null
DiffCacheInvalidate == [started |-> FALSE, entries |-> <<>>]

\* the object literal { commit, repoPath, includeWorkingCopy } that a call of
\* getGenericChangesForFile builds: a Map compares object keys by identity,
\* and ref is the identity of the literal, new at every call
DiffKey(commit, repoPath, includeWorkingCopy, ref) ==
  [commit |-> commit, repoPath |-> repoPath,
   includeWorkingCopy |-> includeWorkingCopy, ref |-> ref]

\* cache.load(args): the entries stored under this very object
DiffCacheLoad(cache, args) ==
  IF ~cache.started THEN <<>>
  ELSE SelectSeq(cache.entries, LAMBDA en : en.key = args)

\* the head of getGenericChangesForFile in a session: a hit reuses the files,
\* a miss runs git diff; nothing is saved to the cache afterwards
DiffLookup(session, commit, repoPath, includeWorkingCopy, ref) ==
  IF DiffCacheLoad(session.cache,
                   DiffKey(commit, repoPath, includeWorkingCopy, ref)) # <<>>
  THEN session
  ELSE [session EXCEPT !.diffs = @ + 1]

\* ---------------------------------------------------------------- paths
\* AbsolutePath.toRelativePath: the mapped repository whose root holds the
\* path, or null
NullPath == [repository |-> "null", path |-> "null"]

toRelativePath(absPath) ==
  IF absPath.repo \in config
  THEN [repository |-> absPath.repo, path |-> absPath.name]
  ELSE NullPath

\* af.readFile(path) succeeds
Readable(absPath) ==
  \/ absPath = Outside
  \/ absPath.repo \in Repos /\ absPath.name \in Names
       /\ wc[absPath.repo].name = absPath.name

ContentAt(absPath) ==
  IF absPath = Outside THEN {1} ELSE wc[absPath.repo].lines

\* ------------------------------------------------------------- the tour
Undefined == -1
NoId == <<>>
\* `${tf.id}:${tf.generator.toString()}` of the tour named "Tour"
GenId(n) == <<"Tour", n>>

TourFile(ss, rs, g) == [stops |-> ss, repositories |-> rs, generator |-> g]

Ret(tf, code) == [tf |-> tf, code |-> code]

\* tf.repositories.findIndex(st => st.repository === name), 1-based, 0 if none
FindRepo(rs, name) ==
  IF \E i \in DOMAIN rs : rs[i].repository = name
  THEN CHOOSE i \in DOMAIN rs :
         /\ rs[i].repository = name
         /\ \A j \in DOMAIN rs : rs[j].repository = name => i <= j
  ELSE 0

\* tf.stops.findIndex(s => s.id === stopId), 1-based, 0 if none
FindStop(ss, stopId) ==
  IF \E i \in DOMAIN ss : ss[i].id = stopId
  THEN CHOOSE i \in DOMAIN ss :
         /\ ss[i].id = stopId
         /\ \A j \in DOMAIN ss : ss[j].id = stopId => i <= j
  ELSE 0

\* array.splice(k, 1) for a 1-based k
RemoveAt(s, k) == [i \in 1..(Len(s) - 1) |-> IF i < k THEN s[i] ELSE s[i + 1]]

\* a splice that inserts behind the element at start
InsertAfter(s, start, x) ==
  LET n == Len(s)
      at == IF start + 1 > n THEN n ELSE start + 1
  IN  [i \in 1..(n + 1) |->
         IF i <= at THEN s[i] ELSE IF i = at + 1 THEN x ELSE s[i - 1]]

\* array.splice(start, 0, x) for a 0-based start as JavaScript clamps it
InsertAt(s, start, x) ==
  LET n == Len(s)
      at == IF start < 0 THEN (IF n + start < 0 THEN 0 ELSE n + start)
            ELSE IF start > n THEN n ELSE start
  IN  [i \in 1..(n + 1) |->
         IF i <= at THEN s[i] ELSE IF i = at + 1 THEN x ELSE s[i - 1]]

verifyLocation(absPath, line) ==
  IF ~Readable(absPath) THEN 100
  ELSE IF line < 1 \/ line > FileLineCount(ContentAt(absPath)) THEN 101
  ELSE OK

\* the loop body of refresh that keeps the old relPath of a stop it moves
RefreshStopKeepsPath(stop, commit) ==
  With(getChangesForFile(commit, stop.relPath, stop.repository),
       LAMBDA changes :
       With(computeDelta(changes, stop.line), LAMBDA newLine :
         IF newLine # Null THEN [stop EXCEPT !.line = newLine]
         ELSE [stop EXCEPT !.line = 0, !.relPath = ""]))

\* the loop body of refresh that resets a stop it cannot move to line 1
RefreshStopResets(stop, commit) ==
  With(getChangesForFile(commit, stop.relPath, stop.repository),
       LAMBDA changes :
       With(computeDelta(changes, stop.line), LAMBDA newLine :
         IF newLine # Null
         THEN [stop EXCEPT !.line = newLine, !.relPath = changes.name]
         ELSE [stop EXCEPT !.line = 1, !.relPath = changes.name]))

\* the loop body of refresh that leaves the stop where it was
RefreshStopSkips(stop, commit) == stop

\* the loop body of refresh for one stop of the repository
RefreshStop(stop, commit) ==
  With(getChangesForFile(commit, stop.relPath, stop.repository),
       LAMBDA changes :
       With(computeDelta(changes, stop.line), LAMBDA newLine :
         IF newLine # Null
         THEN [stop EXCEPT !.line = newLine, !.relPath = changes.name]
         ELSE [stop EXCEPT !.line = 0, !.relPath = ""]))

\* refresh that advances the binding of every repository it can read
refreshAdvancesAll(tf, repository) ==
  IF repository \notin config THEN Ret(tf, 200)
  ELSE
    LET currVersion == getCurrentVersion(repository)
        k == FindRepo(tf.repositories, repository)
    IN  IF currVersion = Null THEN Ret(tf, 202)
        ELSE IF k = 0 THEN Ret(tf, 300)
        ELSE IF tf.repositories[k].commit = currVersion THEN Ret(tf, OK)
        ELSE Ret([tf EXCEPT
                   !.stops = [i \in DOMAIN tf.stops |->
                      IF tf.stops[i].repository # repository THEN tf.stops[i]
                      ELSE RefreshStop(tf.stops[i], tf.repositories[k].commit)],
                   !.repositories = [j \in DOMAIN tf.repositories |->
                      IF getCurrentVersion(tf.repositories[j].repository)
                           = Null
                      THEN tf.repositories[j]
                      ELSE [tf.repositories[j] EXCEPT !.commit =
                              getCurrentVersion(
                                tf.repositories[j].repository)]]], OK)

refresh(tf, repository) ==
  IF repository \notin config THEN Ret(tf, 200)
  ELSE
    LET currVersion == getCurrentVersion(repository)
        k == FindRepo(tf.repositories, repository)
    IN  IF currVersion = Null THEN Ret(tf, 202)
        ELSE IF k = 0 THEN Ret(tf, 300)
        ELSE IF tf.repositories[k].commit = currVersion THEN Ret(tf, OK)
        ELSE Ret([tf EXCEPT
                   !.stops = [i \in DOMAIN tf.stops |->
                      IF tf.stops[i].repository # repository THEN tf.stops[i]
                      ELSE RefreshStop(tf.stops[i], tf.repositories[k].commit)],
                   !.repositories[k].commit = currVersion], OK)

\* the loop body of refresh for a stop whose git diff runs while HEAD is at
\* the given tree: diffWithHead names the bound commit only, git resolves
\* HEAD when it runs
RefreshStopAt(stop, commit, head) ==
  With(ParseDiff(history[stop.repository][commit], head), LAMBDA files :
    With(IF \E i \in DOMAIN files : files[i].from = stop.relPath
         THEN ChangesOfEntry(
                files[CHOOSE i \in DOMAIN files :
                        /\ files[i].from = stop.relPath
                        /\ \A j \in DOMAIN files :
                             files[j].from = stop.relPath => i <= j])
         ELSE FileChanges(<<>>, <<>>, <<>>, stop.relPath),
         LAMBDA changes :
      With(computeDelta(changes, stop.line), LAMBDA newLine :
        IF newLine # Null
        THEN [stop EXCEPT !.line = newLine, !.relPath = changes.name]
        ELSE [stop EXCEPT !.line = 0, !.relPath = ""])))

\* refresh during which a commit with the given tree lands while the loop
\* awaits the diff of stop n: currVersion was read before, the diffs of the
\* stops from n on run against the new HEAD
refreshRacing(tf, repository, n, tree) ==
  With(FindRepo(tf.repositories, repository), LAMBDA k :
    Ret([tf EXCEPT
          !.stops = [i \in DOMAIN tf.stops |->
             IF tf.stops[i].repository # repository THEN tf.stops[i]
             ELSE IF i < n
             THEN RefreshStop(tf.stops[i], tf.repositories[k].commit)
             ELSE RefreshStopAt(tf.stops[i], tf.repositories[k].commit,
                                tree)],
          !.repositories[k].commit = getCurrentVersion(repository)], OK))

\* refresh whose stop loop is cut short at stop n of the repository: the git
\* diff of getChangesForFile for stop n throws, after the stops before n
\* were translated in place; the binding is not reached
refreshInterrupted(tf, repository, n) ==
  With(tf.repositories[FindRepo(tf.repositories, repository)].commit,
       LAMBDA commit :
    Ret([tf EXCEPT
          !.stops = [i \in DOMAIN tf.stops |->
             IF i < n /\ tf.stops[i].repository = repository
             THEN RefreshStop(tf.stops[i], commit)
             ELSE tf.stops[i]]], ExecError))

RECURSIVE RefreshAll(_, _)
\* for (const repo of tf.repositories) await this.refresh(tf, repo.repository)
RefreshAll(tf, i) ==
  IF i > Len(tf.repositories) THEN Ret(tf, OK)
  ELSE With(refresh(tf, tf.repositories[i].repository), LAMBDA r :
         IF r.code # OK THEN r ELSE RefreshAll(r.tf, i + 1))

\* abstractStop, for a path that toRelativePath maps: the persisted stop, or
\* the exception of the dirty diff
abstractStop(id, stop, hasState, stateCommit) ==
  LET relPath == toRelativePath(stop.absPath)
      commit == IF hasState THEN stateCommit
                ELSE getCurrentVersion(relPath.repository)
  IN  IF relPath = NullPath THEN [code |-> 201]
      ELSE IF commit # Null /\ relPath.repository \notin gitOK
      THEN [code |-> ExecError]
      ELSE [code |-> OK,
            stop |-> [id |-> id, body |-> stop.body,
                      line |-> IF commit = Null THEN stop.line
                               ELSE undoDelta(
                                      getDirtyChangesForFile(
                                        commit, relPath.path,
                                        relPath.repository),
                                      stop.line),
                      relPath |-> relPath.path,
                      repository |-> relPath.repository,
                      title |-> stop.title, childStops |-> stop.childStops]]

add(tf, stop, index, id) ==
  LET fresh == id = NoId /\ stop.id = NoId
      g0 == IF tf.generator = Undefined THEN 0 ELSE tf.generator
      theId == IF id # NoId THEN id
               ELSE IF stop.id # NoId THEN stop.id ELSE GenId(g0)
      tf1 == IF fresh THEN [tf EXCEPT !.generator = g0 + 1] ELSE tf
      loc == verifyLocation(stop.absPath, stop.line)
      relPath == toRelativePath(stop.absPath)
      version == getCurrentVersion(relPath.repository)
  IN  IF loc # OK THEN Ret(tf1, loc)
      ELSE With(RefreshAll(tf1, 1), LAMBDA all :
        IF all.code # OK THEN all
        ELSE IF relPath = NullPath THEN Ret(all.tf, 204)
        ELSE IF version = Null THEN Ret(all.tf, 202)
        ELSE
          With(FindRepo(all.tf.repositories, relPath.repository), LAMBDA k :
          With(IF k # 0 THEN all.tf
               ELSE [all.tf EXCEPT !.repositories =
                       Append(@, [repository |-> relPath.repository,
                                  commit |-> version])],
               LAMBDA tf3 :
          With(abstractStop(theId, stop, k # 0,
                            IF k # 0 THEN all.tf.repositories[k].commit
                            ELSE Null),
               LAMBDA rel :
            IF rel.code # OK THEN Ret(tf3, rel.code)
            ELSE IF k # 0 /\ all.tf.repositories[k].commit # version
            THEN Ret(tf3, 203)
            ELSE Ret([tf3 EXCEPT !.stops =
                        IF index # Null THEN InsertAt(@, index, rel.stop)
                        ELSE Append(@, rel.stop)], OK)))))

\* remove, forgetting to prune the bindings
removeKeepsBindings(tf, stopId) ==
  LET index == FindStop(tf.stops, stopId)
  IN  IF index = 0 THEN Ret(tf, 0)
      ELSE Ret([tf EXCEPT !.stops = RemoveAt(tf.stops, index)], OK)

\* remove, dropping the binding of the removed stop's repository whether or
\* not another stop still references it
removeDropsBinding(tf, stopId) ==
  LET index == FindStop(tf.stops, stopId)
  IN  IF index = 0 THEN Ret(tf, 0)
      ELSE Ret([tf EXCEPT
                 !.stops = RemoveAt(tf.stops, index),
                 !.repositories =
                   SelectSeq(@, LAMBDA repo :
                     repo.repository # tf.stops[index].repository)],
               OK)

remove(tf, stopId) ==
  LET index == FindStop(tf.stops, stopId)
      rest == RemoveAt(tf.stops, index)
      remainingRepos == {rest[i].repository : i \in DOMAIN rest}
  IN  IF index = 0 THEN Ret(tf, 0)
      ELSE Ret([tf EXCEPT
                 !.stops = rest,
                 !.repositories =
                   SelectSeq(@, LAMBDA repo : repo.repository \in remainingRepos)],
               OK)

NoEdit == "undefined"

edit(tf, stopId, stopEdit) ==
  LET index == FindStop(tf.stops, stopId)
  IN  IF index = 0 THEN Ret(tf, 0)
      ELSE Ret([tf EXCEPT
                 !.stops[index].title =
                   IF stopEdit.title # NoEdit THEN stopEdit.title ELSE @,
                 !.stops[index].body =
                   IF stopEdit.body # NoEdit THEN stopEdit.body ELSE @], OK)

link(tf, stopId, childStop) ==
  LET index == FindStop(tf.stops, stopId)
  IN  IF index = 0 THEN Ret(tf, 0)
      ELSE Ret([tf EXCEPT !.stops[index].childStops = Append(@, childStop)],
               OK)

\* reorder that exchanges the stop with the one at the new index
reorderSwaps(tf, stopId, newIndex) ==
  LET oldIndex == FindStop(tf.stops, stopId)
  IN  IF newIndex < 0 \/ newIndex >= Len(tf.stops) THEN Ret(tf, 0)
      ELSE IF oldIndex = 0 THEN Ret(tf, 0)
      ELSE Ret([tf EXCEPT !.stops =
                  [@ EXCEPT ![oldIndex] = tf.stops[newIndex + 1],
                            ![newIndex + 1] = tf.stops[oldIndex]]], OK)

reorder(tf, stopId, newIndex) ==
  LET oldIndex == FindStop(tf.stops, stopId)
  IN  IF newIndex < 0 \/ newIndex >= Len(tf.stops) THEN Ret(tf, 0)
      ELSE IF oldIndex = 0 THEN Ret(tf, 0)
      ELSE Ret([tf EXCEPT !.stops =
                  InsertAt(RemoveAt(@, oldIndex), newIndex, tf.stops[oldIndex])],
               OK)

BaseFields(stop) ==
  [id |-> stop.id, body |-> stop.body, title |-> stop.title,
   childStops |-> stop.childStops]

makeBroken(stop, errors) ==
  [kind |-> "broken", errors |-> errors, base |-> BaseFields(stop)]

\* resolveStop: a thrown code, a BrokenTourStop or an AbsoluteTourStop
resolveStop(tf, stop) ==
  With(FindRepo(tf.repositories, stop.repository), LAMBDA k :
    IF stop.repository \notin config THEN [kind |-> "throw", code |-> 200]
    ELSE IF k = 0 THEN [kind |-> "throw", code |-> 300]
    ELSE IF stop.repository \notin gitOK
    THEN [kind |-> "throw", code |-> ExecError]
    ELSE
      With(getDirtyChangesForFile(tf.repositories[k].commit, stop.relPath,
                                  stop.repository),
           LAMBDA changes :
      With([repo |-> stop.repository, name |-> changes.name],
           LAMBDA absPath :
        IF ~Readable(absPath) THEN makeBroken(stop, <<"FileNotFound">>)
        ELSE
          With(computeDelta(changes, stop.line), LAMBDA newLine :
            IF newLine = Null \/ newLine = 0 \/ newLine <= 0
            THEN makeBroken(stop, <<"LineNotFound">>)
            ELSE [kind |-> "located", absPath |-> absPath, line |-> newLine,
                  base |-> BaseFields(stop)]))))

\* the orders in which n promises may settle: the permutations of 1..n
Settlings(n) ==
  {order \in [1..n -> 1..n] : \A i \in 1..n : \E k \in 1..n : order[k] = i}

Pending == [kind |-> "pending"]

RECURSIVE SettleInArrivalOrder(_, _, _, _)
\* a Promise.all that collects the values as they arrive
SettleInArrivalOrder(values, promises, order, k) ==
  IF k > Len(order) THEN [code |-> OK, stops |-> values]
  ELSE IF promises[order[k]].kind = "throw"
  THEN [code |-> promises[order[k]].code, stops |-> <<>>]
  ELSE SettleInArrivalOrder(
         [i \in DOMAIN values |->
            IF i = k THEN promises[order[k]] ELSE values[i]],
         promises, order, k + 1)

RECURSIVE Settle(_, _, _, _)
\* Promise.all as the promises settle in the given order: the value of
\* promise i is stored at index i; the first rejection to arrive rejects the
\* whole
Settle(values, promises, order, k) ==
  IF k > Len(order) THEN [code |-> OK, stops |-> values]
  ELSE IF promises[order[k]].kind = "throw"
  THEN [code |-> promises[order[k]].code, stops |-> <<>>]
  ELSE Settle([values EXCEPT ![order[k]] = promises[order[k]]],
              promises, order, k + 1)

\* resolve: Promise.all over the resolveStop of every stop, which settle in
\* the given order
resolve(tf, order) ==
  Settle([i \in DOMAIN tf.stops |-> Pending],
         [i \in DOMAIN tf.stops |-> resolveStop(tf, tf.stops[i])], order, 1)

\* move that takes the stop out of the list before it adds it again
moveRemovesFirst(tf, stopId, stopPos) ==
  With(FindStop(tf.stops, stopId), LAMBDA index :
    IF index = 0 THEN Ret(tf, 0)
    ELSE
      With(resolveStop(tf, tf.stops[index]), LAMBDA res :
        IF res.kind = "throw" THEN Ret(tf, res.code)
        ELSE
          add([tf EXCEPT !.stops = RemoveAt(@, index)],
              [id |-> res.base.id, body |-> res.base.body,
               title |-> res.base.title,
               childStops |-> res.base.childStops,
               absPath |-> stopPos.absPath, line |-> stopPos.line],
              index - 1, tf.stops[index].id)))

\* move that appends the stop at its new position to the list
moveAppends(tf, stopId, stopPos) ==
  With(FindStop(tf.stops, stopId), LAMBDA index :
    IF index = 0 THEN Ret(tf, 0)
    ELSE
      With(resolveStop(tf, tf.stops[index]), LAMBDA res :
        IF res.kind = "throw" THEN Ret(tf, res.code)
        ELSE
          With(add(tf,
                   [id |-> res.base.id, body |-> res.base.body,
                    title |-> res.base.title,
                    childStops |-> res.base.childStops,
                    absPath |-> stopPos.absPath, line |-> stopPos.line],
                   Null, tf.stops[index].id),
               LAMBDA added :
            IF added.code # OK THEN added
            ELSE Ret([added.tf EXCEPT !.stops = RemoveAt(@, index)], OK))))

move(tf, stopId, stopPos) ==
  With(FindStop(tf.stops, stopId), LAMBDA index :
    IF index = 0 THEN Ret(tf, 0)
    ELSE
      With(resolveStop(tf, tf.stops[index]), LAMBDA res :
        IF res.kind = "throw" THEN Ret(tf, res.code)
        ELSE
          With(add(tf,
                   [id |-> res.base.id, body |-> res.base.body,
                    title |-> res.base.title,
                    childStops |-> res.base.childStops,
                    absPath |-> stopPos.absPath, line |-> stopPos.line],
                   index - 1, tf.stops[index].id),
               LAMBDA added :
            IF added.code # OK THEN added
            ELSE Ret([added.tf EXCEPT !.stops = RemoveAt(@, index + 1)],
                     OK))))

RECURSIVE ResolveSession(_, _, _)
\* the diff lookups of resolve: one for every stop whose repository is
\* mapped and bound
ResolveSession(tf, i, session) ==
  IF i > Len(tf.stops) THEN session
  ELSE ResolveSession(tf, i + 1,
         IF /\ tf.stops[i].repository \in config
            /\ FindRepo(tf.repositories, tf.stops[i].repository) # 0
         THEN DiffLookup(session,
                tf.repositories[FindRepo(tf.repositories,
                                         tf.stops[i].repository)].commit,
                tf.stops[i].repository, TRUE, i)
         ELSE session)

RECURSIVE RefreshSession(_, _, _, _)
\* the diff lookups of the stop loop of refresh: one for every stop of the
\* repository
RefreshSession(tf, repository, i, session) ==
  IF i > Len(tf.stops) THEN session
  ELSE RefreshSession(tf, repository, i + 1,
         IF tf.stops[i].repository = repository
         THEN DiffLookup(session,
                tf.repositories[FindRepo(tf.repositories, repository)].commit,
                repository, FALSE, i)
         ELSE session)

\* a refresh that enters its stop loop also when the binding is at the
\* current version
RefreshAlwaysOpensSession(tf, repository) ==
  /\ repository \in config
  /\ getCurrentVersion(repository) # Null
  /\ FindRepo(tf.repositories, repository) # 0

\* whether refresh reaches its stop loop
RefreshOpensSession(tf, repository) ==
  /\ repository \in config
  /\ getCurrentVersion(repository) # Null
  /\ FindRepo(tf.repositories, repository) # 0
  /\ tf.repositories[FindRepo(tf.repositories, repository)].commit
       # getCurrentVersion(repository)

NewSession == [cache |-> DiffCacheStart, diffs |-> 0]

\* a call that never reaches cache.start()
NoSession == [cache |-> DiffCacheInvalidate, diffs |-> 0]

\* cache.invalidate(), the statement after the awaits of the call: a call
\* that throws never reaches it
EndSession(session) == [session EXCEPT !.cache = DiffCacheInvalidate]

\* --------------------------------------------------------- the state machine
tfNow == TourFile(stops, repositories, generator)

NoArg == [none |-> TRUE]

\* diffs: the git diffs run inside the DiffCache session of a resolve or a
\* refresh call; 0 for a call that opens no session
\* cache: the DiffCache the call leaves behind when it is entered with an
\* inactive one
Call(op, pre, code, out) ==
  [op |-> op, pre |-> pre, code |-> code, out |-> out, diffs |-> 0,
   cache |-> DiffCacheInvalidate]

\* a handler ran on the tour: its mutations stay, thrown or not
Ran(op, r, out) ==
  /\ stops' = r.tf.stops
  /\ repositories' = r.tf.repositories
  /\ generator' = r.tf.generator
  /\ last' = Call(op, tfNow, r.code, out)
  /\ UNCHANGED world

\* a handler ran on the tour and left the DiffCache session it worked in
RanSession(op, r, out, session) ==
  /\ stops' = r.tf.stops
  /\ repositories' = r.tf.repositories
  /\ generator' = r.tf.generator
  /\ last' = [Call(op, tfNow, r.code, out) EXCEPT !.diffs = session.diffs,
                                                  !.cache = session.cache]
  /\ UNCHANGED world

\* the lines a caller may name in a file: each of its lines, and one on
\* either side
LineArgs(absPath) ==
  IF Readable(absPath) THEN 0..(FileLineCount(ContentAt(absPath)) + 1)
  ELSE {1}

SuppliedIds == {GenId(0)}

\* the insert positions a caller may name: none (append) or the front
IndexArgs == {Null, 0}

StopIds == {stops[i].id : i \in DOMAIN stops}

\* the ids a caller may name: those of the tour and one that is not in it
IdArgs == StopIds \cup {GenId(MaxGen)}

\* no stop has been edited or linked yet
Unmarked ==
  \A i \in DOMAIN stops : stops[i].title = "t" /\ stops[i].childStops = <<>>

ChildStop == [tourId |-> "tour2", stopNum |-> 0]

\* one commit in each repository, a clean working copy and the tour of init()
InitWith(S1, S2) ==
  /\ config = Repos
  /\ gitOK = Repos
  /\ history = [r \in Repos |->
                  IF r = "r1" THEN <<Tree("f", S1)>> ELSE <<Tree("f", S2)>>]
  /\ wc = [r \in Repos |-> IF r = "r1" THEN Tree("f", S1) ELSE Tree("f", S2)]
  /\ edits = 0
  /\ stops = <<>>
  /\ repositories = <<>>
  /\ generator = Undefined
  /\ last = Call("init", TourFile(<<>>, <<>>, Undefined), OK, NoArg)

Add(absPath, line, index, sid) ==
  /\ Len(stops) < MaxStops
  /\ generator < MaxGen
  /\ \E r \in {add(tfNow,
                    [id |-> sid, absPath |-> absPath, line |-> line,
                     title |-> "t", body |-> "b", childStops |-> <<>>],
                    index, NoId)} :
       Ran("add", r,
           IF r.code = OK
           THEN IF sid # NoId THEN sid
                ELSE GenId(IF generator = Undefined THEN 0 ELSE generator)
           ELSE NoId)

Remove(stopId) == Ran("remove", remove(tfNow, stopId), NoArg)

Edit(stopId, stopEdit) ==
  /\ Unmarked
  /\ Ran("edit", edit(tfNow, stopId, stopEdit), NoArg)

Move(stopId, absPath, line) ==
  LET stopPos == [absPath |-> absPath, line |-> line]
  IN  Ran("move", move(tfNow, stopId, stopPos), NoArg)

Link(stopId) ==
  /\ Unmarked
  /\ Ran("link", link(tfNow, stopId, ChildStop), NoArg)

Reorder(stopId, newIndex) ==
  Ran("reorder", reorder(tfNow, stopId, newIndex), NoArg)

Refresh(repository) ==
  RanSession("refresh", refresh(tfNow, repository), NoArg,
             IF RefreshOpensSession(tfNow, repository)
             THEN EndSession(RefreshSession(tfNow, repository, 1, NewSession))
             ELSE NoSession)

\* refresh, with the git subprocess of the repository starting to fail
\* while the stop loop awaits the diff of stop n; taken while the stops are
\* at lines up to MaxLineId, since every such refresh may shift them again
RefreshInterrupted(repository, n) ==
  /\ RefreshOpensSession(tfNow, repository)
  /\ \A i \in DOMAIN stops : stops[i].line <= MaxLineId
  /\ n \in DOMAIN stops
  /\ stops[n].repository = repository
  /\ \E r \in {refreshInterrupted(tfNow, repository, n)} :
       /\ stops' = r.tf.stops
       /\ repositories' = r.tf.repositories
       /\ generator' = r.tf.generator
       /\ last' = [Call("refresh", tfNow, r.code, NoArg) EXCEPT
                     !.diffs = Cardinality({i \in 1..n :
                                  stops[i].repository = repository}),
                     !.cache = DiffCacheStart]
  /\ gitOK' = gitOK \ {repository}
  /\ UNCHANGED <<config, history, wc, edits>>

\* refresh, with the working copy committed by someone else while the stop
\* loop awaits the diff of stop n
RefreshRacing(repository, n) ==
  /\ RefreshOpensSession(tfNow, repository)
  /\ n \in DOMAIN stops
  /\ stops[n].repository = repository
  /\ HeadOf(repository) < MaxRaceCommits
  /\ \E r \in {refreshRacing(tfNow, repository, n, wc[repository])} :
       /\ stops' = r.tf.stops
       /\ repositories' = r.tf.repositories
       /\ generator' = r.tf.generator
       /\ last' = [Call("refresh", tfNow, r.code, NoArg) EXCEPT
                     !.diffs = Cardinality({i \in DOMAIN stops :
                                  stops[i].repository = repository})]
  /\ history' = [history EXCEPT ![repository] = Append(@, wc[repository])]
  /\ UNCHANGED <<config, gitOK, wc, edits>>

\* a resolve that refreshes the tour it is given
ResolveRefreshing ==
  \E order \in Settlings(Len(stops)) : \E t \in {resolve(tfNow, order)} :
    Ran("resolve", Ret(RefreshAll(tfNow, 1).tf, t.code), t.stops)

Resolve ==
  \E order \in Settlings(Len(stops)) : \E t \in {resolve(tfNow, order)} :
    RanSession("resolve", Ret(tfNow, t.code), t.stops,
               IF t.code = OK
               THEN EndSession(ResolveSession(tfNow, 1, NewSession))
               ELSE ResolveSession(tfNow, 1, NewSession))

\* the working copy and the repository change under the tour
Env(r, tree) ==
  /\ edits < MaxEdits
  /\ edits' = edits + 1
  /\ wc' = [wc EXCEPT ![r] = tree]
  /\ last' = Call("env", tfNow, OK, NoArg)
  /\ UNCHANGED <<config, gitOK, history, stops, repositories, generator>>

InsertLine(r, x) ==
  /\ wc[r].name # NoFile
  /\ x \notin wc[r].lines
  /\ Env(r, Tree(wc[r].name, wc[r].lines \cup {x}))

DeleteLine(r, x) ==
  /\ x \in wc[r].lines
  /\ Cardinality(wc[r].lines) > 1
  /\ Env(r, Tree(wc[r].name, wc[r].lines \ {x}))

RenameFile(r) ==
  /\ wc[r].name = "f"
  /\ Env(r, Tree("g", wc[r].lines))

RemoveFile(r) ==
  /\ wc[r].name # NoFile
  /\ Env(r, NoTree)

\* git add -A; git commit
Commit(r) ==
  /\ r \in gitOK
  /\ HeadOf(r) < MaxCommits
  /\ history' = [history EXCEPT ![r] = Append(@, wc[r])]
  /\ last' = Call("env", tfNow, OK, NoArg)
  /\ UNCHANGED <<config, gitOK, wc, edits, stops, repositories, generator>>

mapConfig(repo) ==
  /\ repo \notin config
  /\ config' = config \cup {repo}
  /\ last' = Call("env", tfNow, OK, NoArg)
  /\ UNCHANGED <<gitOK, history, wc, edits, stops, repositories, generator>>

unmapConfig(repo) ==
  /\ repo \in config
  /\ config' = config \ {repo}
  /\ last' = Call("env", tfNow, OK, NoArg)
  /\ UNCHANGED <<gitOK, history, wc, edits, stops, repositories, generator>>

\* the git subprocess of a repository starts or stops failing
GitToggle(r) ==
  /\ gitOK' = IF r \in gitOK THEN gitOK \ {r} ELSE gitOK \cup {r}
  /\ last' = Call("env", tfNow, OK, NoArg)
  /\ UNCHANGED <<config, history, wc, edits, stops, repositories, generator>>

\* ---- the tour's structure: two repositories with short files that only
\* ---- gain commits, every operation of the tour
TourPaths ==
  {[repo |-> "r1", name |-> "f"], [repo |-> "r1", name |-> "g"],
   [repo |-> "r2", name |-> "f"], Outside}

Init == InitWith({1}, {1})

Next ==
  \/ \E p \in TourPaths : \E l \in LineArgs(p), i \in IndexArgs,
        sid \in {NoId} \cup SuppliedIds : Add(p, l, i, sid)
  \/ \E id \in IdArgs : Remove(id)
  \/ \E id \in IdArgs : Edit(id, [title |-> "t2", body |-> NoEdit])
  \/ \E id \in IdArgs, p \in TourPaths : \E l \in LineArgs(p) : Move(id, p, l)
  \/ \E id \in IdArgs : Link(id)
  \/ \E id \in IdArgs, n \in -1..Len(stops) : Reorder(id, n)
  \/ \E r \in Repos : Refresh(r)
  \/ Resolve
  \/ \E r \in Repos : Commit(r)
  \/ mapConfig("r2")
  \/ unmapConfig("r2")
  \/ GitToggle("r2")

Spec == Init /\ [][Next]_vars

\* ---- line tracking: one repository whose file is edited, renamed, removed
\* ---- and committed under the tour
TrackPaths == {[repo |-> "r1", name |-> "f"], [repo |-> "r1", name |-> "g"]}

InitContents == {{2}, {1, 2, 3}, LineIds}

InitTrack == \E S \in InitContents : InitWith(S, {1})

NextTrack ==
  \/ \E p \in TrackPaths : \E l \in LineArgs(p) : Add(p, l, Null, NoId)
  \/ Refresh("r1")
  \/ Resolve
  \/ \E x \in LineIds : InsertLine("r1", x)
  \/ \E x \in LineIds : DeleteLine("r1", x)
  \/ RenameFile("r1")
  \/ RemoveFile("r1")
  \/ Commit("r1")

SpecTrack == InitTrack /\ [][NextTrack]_vars

\* ---- refresh cut short: a file that gains lines and commits under the
\* ---- tour, and a git subprocess that may fail in the middle of a refresh
NextPartial ==
  \/ \E p \in TrackPaths : \E l \in LineArgs(p) : Add(p, l, Null, NoId)
  \/ Refresh("r1")
  \/ \E n \in 1..MaxStops : RefreshInterrupted("r1", n)
  \/ \E x \in LineIds : InsertLine("r1", x)
  \/ Commit("r1")
  \/ GitToggle("r1")

SpecPartial == InitTrack /\ [][NextPartial]_vars

\* ---- refresh raced by a commit: a file that gains lines and commits under
\* ---- the tour, also in the middle of a refresh
NextRace ==
  \/ \E p \in TrackPaths : \E l \in LineArgs(p) : Add(p, l, Null, NoId)
  \/ Refresh("r1")
  \/ \E n \in 1..MaxStops : RefreshRacing("r1", n)
  \/ \E x \in LineIds : InsertLine("r1", x)
  \/ Commit("r1")

SpecRace == InitTrack /\ [][NextRace]_vars

\* ---- the line-delta engine on its own: a FileChanges value, and calls of
\* ---- computeDelta and undoDelta on it
DeltaLines == 1..MaxDeltaLine

\* the line arguments: the lines, one past them, 0 and a negative
DeltaArgs == (-1)..(MaxDeltaLine + 1)

\* the Maps of at most MaxMoves entries from line to line
MoveMaps ==
  {[i \in 1..Cardinality(K) |-> <<SetToSeq(K)[i], f[SetToSeq(K)[i]]>>] :
     <<K, f>> \in UNION {{<<K, f>> : f \in [K -> DeltaLines]} :
                         K \in {X \in SUBSET DeltaLines :
                                  Cardinality(X) <= MaxMoves}}}

AllFileChanges ==
  {FileChanges(SetToSeq(A), SetToSeq(D), m, "f") :
     A \in SUBSET DeltaLines, D \in SUBSET DeltaLines, m \in MoveMaps}

DeltaCall(changes, line) == [changes |-> changes, line |-> line]

InitDelta ==
  /\ config = Repos
  /\ gitOK = Repos
  /\ history = [r \in Repos |-> <<Tree("f", {1})>>]
  /\ wc = [r \in Repos |-> Tree("f", {1})]
  /\ edits = 0
  /\ stops = <<>>
  /\ repositories = <<>>
  /\ generator = Undefined
  /\ \E c \in AllFileChanges :
       last = Call("FileChanges", DeltaCall(c, 0), OK, NoArg)

ComputeDelta(line) ==
  /\ last' = Call("computeDelta", DeltaCall(last.pre.changes, line), OK,
                  computeDelta(last.pre.changes, line))
  /\ UNCHANGED <<world, stops, repositories, generator>>

UndoDelta(line) ==
  /\ last' = Call("undoDelta", DeltaCall(last.pre.changes, line), OK,
                  undoDelta(last.pre.changes, line))
  /\ UNCHANGED <<world, stops, repositories, generator>>

NextDelta ==
  \/ \E l \in DeltaArgs : ComputeDelta(l)
  \/ \E l \in DeltaArgs : UndoDelta(l)

SpecDelta == InitDelta /\ [][NextDelta]_vars

\* ------------------------------------------------- paths as strings
\* a path is the sequence of its characters; pathutil.sep on this platform
Sep == "/"
PathChars == {Sep, "a"}

\* s.startsWith(prefix)
StartsWith(s, prefix) ==
  /\ Len(prefix) <= Len(s)
  /\ SubSeq(s, 1, Len(prefix)) = prefix

\* repoRoot with a trailing separator
WithSep(repoRoot) ==
  IF repoRoot # <<>> /\ repoRoot[Len(repoRoot)] = Sep THEN repoRoot
  ELSE Append(repoRoot, Sep)

\* pathutil.relative(root, path) of a normalized path that starts with root
Relative(root, path) == SubSeq(path, Len(root) + 1, Len(path))

RECURSIVE InsertByLength(_, _)
InsertByLength(entry, sorted) ==
  IF sorted = <<>> THEN <<entry>>
  ELSE IF Len(sorted[1].root) <= Len(entry.root)
  THEN <<sorted[1]>> \o InsertByLength(entry, Tail(sorted))
  ELSE <<entry>> \o sorted

RECURSIVE SortByLength(_)
\* Object.entries(config).sort((a, b) => a[1].length - b[1].length): stable,
\* so entries of equal length keep the order of insertion
SortByLength(entries) ==
  IF entries = <<>> THEN <<>>
  ELSE InsertByLength(entries[Len(entries)],
                      SortByLength(SubSeq(entries, 1, Len(entries) - 1)))

NoRelativePath == [repository |-> "null", path |-> <<>>]

\* toRelativePath that tests startsWith(repoRoot), without the separator
toRelativePathOfNoSep(path, index) ==
  With(SortByLength(index), LAMBDA paths :
    IF \E i \in DOMAIN paths : StartsWith(path, paths[i].root)
    THEN With(CHOOSE i \in DOMAIN paths :
                /\ StartsWith(path, paths[i].root)
                /\ \A j \in 1..(i - 1) : ~StartsWith(path, paths[j].root),
              LAMBDA i : [repository |-> paths[i].repo,
                          path |-> Relative(paths[i].root, path)])
    ELSE NoRelativePath)

\* AbsolutePath.toRelativePath(config) on strings: the first entry, in
\* ascending order of root length, whose root covers the path
toRelativePathOf(path, index) ==
  With(SortByLength(index), LAMBDA paths :
    IF \E i \in DOMAIN paths : StartsWith(path, WithSep(paths[i].root))
    THEN With(CHOOSE i \in DOMAIN paths :
                /\ StartsWith(path, WithSep(paths[i].root))
                /\ \A j \in 1..(i - 1) :
                     ~StartsWith(path, WithSep(paths[j].root)),
              LAMBDA i : [repository |-> paths[i].repo,
                          path |-> Relative(WithSep(paths[i].root), path)])
    ELSE NoRelativePath)

\* ------------------------------------------------------------- scramble
\* tf.stops[i] of an index that is no index of the array
UndefinedStop ==
  [id |-> NoId, body |-> "undefined", line |-> Null, relPath |-> "undefined",
   repository |-> "undefined", title |-> "undefined", childStops |-> <<>>]

\* tf.stops[i], with the 0-based index of the caller
StopAt(tf, i) ==
  IF i >= 0 /\ i < Len(tf.stops) THEN tf.stops[i + 1] ELSE UndefinedStop

scramble(tf, indices) ==
  IF \E k \in DOMAIN indices : indices[k] >= Len(tf.stops)
  THEN Ret(tf, PlainError)
  ELSE Ret([tf EXCEPT !.stops =
                        [k \in DOMAIN indices |-> StopAt(tf, indices[k])]],
           OK)

\* ---------------------------------------------------------------- check
\* the verifyLocation that check calls: the file is read and the line is
\* compared with the number of lines of the file, from above only; a line
\* that is null compares as 0
verifyLocationOfCheck(absPath, line) ==
  IF ~Readable(absPath) THEN PlainError
  ELSE IF line # Null /\ line > FileLineCount(ContentAt(absPath))
  THEN PlainError
  ELSE OK

\* the errors that check pushes for the stop at index i
CheckStop(tf, i) ==
  With(tf.stops[i], LAMBDA stop :
    (IF stop.repository \notin config
     THEN {[stop |-> i, msg |-> "Could not get concrete path."]}
     ELSE IF verifyLocationOfCheck([repo |-> stop.repository,
                                    name |-> stop.relPath], stop.line) # OK
     THEN {[stop |-> i, msg |-> "Invalid location."]}
     ELSE {})
    \cup
    (IF FindRepo(tf.repositories, stop.repository) = 0
     THEN {[stop |-> i, msg |-> "Repository has no version"]}
     ELSE {}))

\* the errors of the list that check returns
check(tf) == UNION {CheckStop(tf, i) : i \in DOMAIN tf.stops}

\* ------------------------------------------------------ the tour file as JSON
\* JS values, tagged with their kind; an object is the sequence of its own
\* properties <<key, value>>
JUndefined == [t |-> "undefined"]
JNull == [t |-> "null"]
JNum(n) == [t |-> "number", v |-> n]
JStr(x) == [t |-> "string", v |-> x]
JArr(xs) == [t |-> "array", v |-> xs]
JObj(props) == [t |-> "object", v |-> props]

\* typeof value
TypeOf(value) ==
  IF value.t \in {"null", "array", "object"} THEN "object" ELSE value.t

\* obj.key of a value that is not undefined or null: undefined if there is no
\* such property
Get(obj, key) ==
  IF obj.t = "object" /\ \E i \in DOMAIN obj.v : obj.v[i][1] = key
  THEN obj.v[CHOOSE i \in DOMAIN obj.v : obj.v[i][1] = key][2]
  ELSE JUndefined

\* a line as add and refresh leave it: a number, or the null of undoDelta
LineValue(line) == IF line = Null THEN JNull ELSE JNum(line)

StopObject(stop) ==
  JObj(<< <<"id", JStr(stop.id)>>,
          <<"body", JStr(stop.body)>>,
          <<"line", LineValue(stop.line)>>,
          <<"relPath", JStr(stop.relPath)>>,
          <<"repository", JStr(stop.repository)>>,
          <<"title", JStr(stop.title)>>,
          <<"childStops",
            JArr([i \in DOMAIN stop.childStops |->
                    JObj(<< <<"tourId", JStr(stop.childStops[i].tourId)>>,
                            <<"stopNum",
                              JNum(stop.childStops[i].stopNum)>> >>)])>> >>)

\* the TourFile object of init("Tour") with the stops, the bindings and the
\* generator of tf
TourObject(tf) ==
  JObj(<< <<"protocolVersion", JStr("1.0")>>,
          <<"id", JStr("Tour")>>,
          <<"repositories",
            JArr([i \in DOMAIN tf.repositories |->
                    JObj(<< <<"repository",
                              JStr(tf.repositories[i].repository)>>,
                            <<"commit",
                              JStr(tf.repositories[i].commit)>> >>)])>>,
          <<"stops", JArr([i \in DOMAIN tf.stops |-> StopObject(tf.stops[i])])>>,
          <<"title", JStr("Tour")>>,
          <<"description", JStr("")>>,
          <<"version", JStr("0.10.0")>>,
          <<"generator", IF tf.generator = Undefined THEN JUndefined
                         ELSE JNum(tf.generator)>> >>)

\* the tf of the model that a TourFile object stands for
FromTourObject(obj) ==
  TourFile(
    [i \in DOMAIN Get(obj, "stops").v |->
       With(Get(obj, "stops").v[i], LAMBDA o :
         [id |-> Get(o, "id").v, body |-> Get(o, "body").v,
          line |-> IF Get(o, "line").t = "null" THEN Null
                   ELSE Get(o, "line").v,
          relPath |-> Get(o, "relPath").v,
          repository |-> Get(o, "repository").v,
          title |-> Get(o, "title").v,
          childStops |->
            [k \in DOMAIN Get(o, "childStops").v |->
               [tourId |-> Get(Get(o, "childStops").v[k], "tourId").v,
                stopNum |-> Get(Get(o, "childStops").v[k], "stopNum").v]]])],
    [i \in DOMAIN Get(obj, "repositories").v |->
       [repository |-> Get(Get(obj, "repositories").v[i], "repository").v,
        commit |-> Get(Get(obj, "repositories").v[i], "commit").v]],
    IF Get(obj, "generator").t = "undefined" THEN Undefined
    ELSE Get(obj, "generator").v)

replacer ==
  {"body", "childStops", "commit", "description", "generator", "id", "line",
   "protocolVersion", "relPath", "repositories", "repository", "stopNum",
   "stops", "title", "tourId", "version"}

RECURSIVE Stringify(_, _)
\* JSON.stringify(value, keys): of an object, the properties named in keys
\* whose value is not undefined; every element of an array
Stringify(value, keys) ==
  IF value.t = "object"
  THEN JObj(With(SelectSeq(value.v,
                           LAMBDA p : p[1] \in keys /\ p[2].t # "undefined"),
                 LAMBDA ps : [i \in DOMAIN ps |->
                                <<ps[i][1], Stringify(ps[i][2], keys)>>]))
  ELSE IF value.t = "array"
  THEN JArr([i \in DOMAIN value.v |-> Stringify(value.v[i], keys)])
  ELSE value

\* a JSON text: the document it spells, or no document at all
Text(value) == [parses |-> TRUE, value |-> value]
Malformed == [parses |-> FALSE, value |-> JUndefined]

serializeTourFile(tf) == Text(Stringify(TourObject(tf), replacer))

\* obj.key.every(valid): throws on a value that has no every
EveryThrows(obj, key) == Get(obj, key).t # "array"

Every(obj, key, valid(_)) ==
  \A i \in DOMAIN Get(obj, key).v : valid(Get(obj, key).v[i])

validTourStop(obj) ==
  /\ obj.t \notin {"undefined", "null"}
  /\ TypeOf(Get(obj, "title")) = "string"
  /\ TypeOf(Get(obj, "line")) = "number"
  /\ TypeOf(Get(obj, "relPath")) = "string"
  /\ TypeOf(Get(obj, "repository")) = "string"

\* the validation of a binding of this tour file format: its fields are
\* present and are strings
validRepoState(obj) ==
  /\ obj.t \notin {"undefined", "null"}
  /\ TypeOf(Get(obj, "repository")) = "string"
  /\ TypeOf(Get(obj, "commit")) = "string"

validTourFile(obj) ==
  /\ obj.t \notin {"undefined", "null"}
  /\ ~EveryThrows(obj, "stops")
  /\ ~EveryThrows(obj, "repositories")
  /\ TypeOf(Get(obj, "title")) = "string"
  /\ TypeOf(Get(obj, "version")) = "string"
  /\ Every(obj, "stops", validTourStop)
  /\ Every(obj, "repositories", validRepoState)

\* what a statement of the try block throws
ThrowsInTry(json) ==
  IF ~json.parses THEN "SyntaxError"
  ELSE IF ~validTourFile(json.value) THEN "401"
  ELSE "nothing"

\* the catch clause takes whatever the try block threw, the 401 of the
\* validation included, and throws 400
deserializeTourFile(json) ==
  IF ThrowsInTry(json) # "nothing" THEN [code |-> 400, obj |-> JUndefined]
  ELSE [code |-> OK, obj |-> json.value]

\* ---- tour files written and read back, on the tours that the tracked
\* repository produces
\* serializeTourFile(tf) handed to deserializeTourFile
SerDe ==
  \E d \in {deserializeTourFile(serializeTourFile(tfNow))} :
    Ran("serde", Ret(tfNow, d.code),
        IF d.code = OK THEN FromTourObject(d.obj) ELSE NoArg)

\* a text that is no JSON, two documents that are no tour file (an empty
\* object, a tour whose stop has no line) and the tour file as serialized
JsonTexts ==
  {Malformed,
   Text(JObj(<<>>)),
   Text(Stringify(TourObject(tfNow), replacer \ {"line"})),
   serializeTourFile(tfNow)}

Deserialize(json) ==
  Ran("deserializeTourFile", Ret(tfNow, deserializeTourFile(json).code),
      [json |-> json])

InitSerde == InitWith({1, 2, 3}, {1})

NextSerde ==
  \/ NextTrack
  \/ SerDe
  \/ \E json \in JsonTexts : Deserialize(json)

SpecSerde == InitSerde /\ [][NextSerde]_vars

\* ---- tours put in a new order
Scramble(indices) ==
  Ran("scramble", scramble(tfNow, indices), [indices |-> indices])

\* the index lists a caller may pass: up to MaxStops indices, each an index
\* of the list or one step outside it
IndexLists ==
  UNION {[1..n -> (-1)..Len(stops)] : n \in 0..MaxStops}

NextOrder ==
  \/ \E p \in TourPaths : \E l \in LineArgs(p) : Add(p, l, Null, NoId)
  \/ \E indices \in IndexLists : Scramble(indices)

SpecOrder == Init /\ [][NextOrder]_vars

\* ---- repository lookup on its own: a RepoIndex, and calls of
\* toRelativePath on it
RECURSIVE SeqsUpTo(_)
\* the character sequences of at most n characters
SeqsUpTo(n) ==
  IF n = 0 THEN {<<>>}
  ELSE With(SeqsUpTo(n - 1), LAMBDA shorter :
         shorter \cup {Append(x, c) : x \in shorter, c \in PathChars})

\* normalized absolute paths: a leading separator, no empty component
Normalized(x) ==
  /\ x # <<>>
  /\ x[1] = Sep
  /\ \A i \in 1..(Len(x) - 1) : ~(x[i] = Sep /\ x[i + 1] = Sep)

\* the files a caller may name
FilePaths ==
  {x \in SeqsUpTo(MaxPathLen) : Normalized(x) /\ x[Len(x)] # Sep}

\* the roots a repository may be mapped to, with or without the trailing
\* separator
RootPaths == {x \in SeqsUpTo(MaxPathLen - 2) : Normalized(x) /\ Len(x) > 1}

\* a RepoIndex: its entries in the order of insertion, one for each key
RepoIndexes ==
  {<<>>} \cup {<<[repo |-> r, root |-> x]>> : r \in Repos, x \in RootPaths}
    \cup {<<[repo |-> ra, root |-> x], [repo |-> rb, root |-> y]>> :
            <<ra, rb, x, y>> \in
              {q \in Repos \X Repos \X RootPaths \X RootPaths : q[1] # q[2]}}

PathCall(index, path) == [index |-> index, path |-> path]

InitPaths ==
  /\ config = Repos
  /\ gitOK = Repos
  /\ history = [r \in Repos |-> <<Tree("f", {1})>>]
  /\ wc = [r \in Repos |-> Tree("f", {1})]
  /\ edits = 0
  /\ stops = <<>>
  /\ repositories = <<>>
  /\ generator = Undefined
  /\ \E index \in RepoIndexes :
       last = Call("RepoIndex", PathCall(index, <<>>), OK, NoRelativePath)

ToRelativePath(path) ==
  /\ last' = Call("toRelativePath", PathCall(last.pre.index, path), OK,
                  toRelativePathOf(path, last.pre.index))
  /\ UNCHANGED <<world, stops, repositories, generator>>

NextPaths == \E path \in FilePaths : ToRelativePath(path)

SpecPaths == InitPaths /\ [][NextPaths]_vars

\* ---- stops moved about, in repositories that come and go
NextMove ==
  \/ \E p \in TourPaths : \E l \in LineArgs(p) : Add(p, l, Null, NoId)
  \/ \E id \in IdArgs, p \in TourPaths : \E l \in LineArgs(p) : Move(id, p, l)
  \/ Resolve
  \/ \E r \in Repos : RemoveFile(r)
  \/ mapConfig("r2")
  \/ unmapConfig("r2")
  \/ GitToggle("r2")

SpecMove == Init /\ [][NextMove]_vars

\* ---- stops added at every position of a tour of up to MaxTourLen stops,
\* ---- removed and reordered
InsertArgs == {Null} \cup (0..(MaxTourLen + 1))

AddAt(absPath, line, index) ==
  /\ Len(stops) < MaxTourLen
  /\ generator < MaxTourLen
  /\ \E r \in {add(tfNow,
                    [id |-> NoId, absPath |-> absPath, line |-> line,
                     title |-> "t", body |-> "b", childStops |-> <<>>],
                    index, NoId)} :
       Ran("add", r,
           IF r.code = OK
           THEN GenId(IF generator = Undefined THEN 0 ELSE generator)
           ELSE NoId)

NextInsert ==
  \/ \E p \in TourPaths : \E l \in LineArgs(p), i \in InsertArgs :
       AddAt(p, l, i)
  \/ \E id \in IdArgs : Remove(id)
  \/ \E id \in IdArgs, n \in -1..Len(stops) : Reorder(id, n)

SpecInsert == Init /\ [][NextInsert]_vars

\* ---- stops that were edited or linked, moved about
NextMoved ==
  \/ NextMove
  \/ \E id \in IdArgs : Edit(id, [title |-> "t2", body |-> "b2"])
  \/ \E id \in IdArgs : Link(id)

SpecMoved == Init /\ [][NextMoved]_vars

\* ---- tours checked: tours built by add, and tour files that were edited
\* where they are stored and are read back
Check == Ran("check", Ret(tfNow, OK), [errors |-> check(tfNow)])

\* the tour file with another line for its first stop, or without its
\* bindings
EditedTours ==
  {[tfNow EXCEPT !.repositories = <<>>]}
    \cup (IF stops = <<>> THEN {}
          ELSE {[tfNow EXCEPT !.stops[1].line = l] : l \in 0..1})

\* deserializeTourFile of a stored tour file: the object it returns is the
\* tour from then on
Open(tf) ==
  \E d \in {deserializeTourFile(serializeTourFile(tf))} :
    Ran("open", Ret(IF d.code = OK THEN FromTourObject(d.obj) ELSE tfNow,
                    d.code), NoArg)

NextCheck ==
  \/ \E p \in TourPaths : \E l \in LineArgs(p) : Add(p, l, Null, NoId)
  \/ \E tf \in EditedTours : Open(tf)
  \/ \E x \in LineIds : DeleteLine("r1", x)
  \/ \E r \in Repos : RemoveFile(r)
  \/ mapConfig("r2")
  \/ unmapConfig("r2")
  \/ Check

SpecCheck == InitSerde /\ [][NextCheck]_vars

\* ------------------------------------------------ overlapping calls
\* resolve and refresh are async: a caller that does not await one call
\* before it starts the next has both suspended on the one DiffCache
\* instance of the process (DiffCache.getInstance). last.out is the process:
\* that instance and the position of every call.
Callers == 1..MaxCalls

\* the Map that the start() of a call created: ref tells the Maps apart
NewMap(ref) == [map |-> DiffCacheStart, ref |-> ref]

NullMap == [map |-> DiffCacheInvalidate, ref |-> 0]

\* a call of op that has todo diff lookups ahead of it
CallAt(op, pc, todo) == [op |-> op, pc |-> pc, todo |-> todo]

IdleCall == CallAt("none", "idle", 0)

Process(cache, calls) == [cache |-> cache, calls |-> calls]

process == last.out

Stepped(op, c, cache, call) ==
  /\ last' = [Call(op, [caller |-> c], OK,
                   Process(cache, [process.calls EXCEPT ![c] = call]))
                EXCEPT !.cache = cache.map]
  /\ UNCHANGED <<world, stops, repositories, generator>>

InitCache ==
  /\ config = Repos
  /\ gitOK = Repos
  /\ history = [r \in Repos |-> <<Tree("f", {1})>>]
  /\ wc = [r \in Repos |-> Tree("f", {1})]
  /\ edits = 0
  /\ stops = <<>>
  /\ repositories = <<>>
  /\ generator = Undefined
  /\ last = Call("process", NoArg, OK,
                 Process(NullMap, [c \in Callers |-> IdleCall]))

\* resolve or refresh, from cache.start() to its first await; n stops of the
\* tour will ask for their diff. start() replaces the Map of the instance.
\* resolve suspends in Promise.all, refresh in the diff of its first stop; a
\* refresh with no stop to translate reaches cache.invalidate() at once.
StartCall(c, op, n) ==
  /\ process.calls[c].pc # "awaiting"
  /\ IF op = "refresh" /\ n = 0
     THEN Stepped("start", c, NullMap, CallAt(op, "returned", 0))
     ELSE Stepped("start", c, NewMap(c), CallAt(op, "awaiting", n))

\* the git subprocess of one lookup of the call ends. cache.load found
\* nothing before it, whichever Map the instance held. A failure ends the
\* call with an exception; after its last answer refresh runs on to
\* cache.invalidate() and returns.
DiffAnswers(c, answers) ==
  /\ process.calls[c].pc = "awaiting"
  /\ process.calls[c].todo > 0
  /\ With(process.calls[c], LAMBDA call :
       IF ~answers
       THEN Stepped("diff", c, process.cache, [call EXCEPT !.pc = "thrown"])
       ELSE IF call.op = "refresh" /\ call.todo = 1
       THEN Stepped("diff", c, NullMap, CallAt(call.op, "returned", 0))
       ELSE Stepped("diff", c, process.cache,
                    [call EXCEPT !.todo = @ - 1]))

\* resolve resumes from Promise.all: cache.invalidate() and return
EndCall(c) ==
  /\ process.calls[c].pc = "awaiting"
  /\ process.calls[c].op = "resolve"
  /\ process.calls[c].todo = 0
  /\ Stepped("end", c, NullMap, [process.calls[c] EXCEPT !.pc = "returned"])

NextCache ==
  \/ \E c \in Callers, op \in {"resolve", "refresh"}, n \in 0..MaxStops :
       StartCall(c, op, n)
  \/ \E c \in Callers, answers \in BOOLEAN : DiffAnswers(c, answers)
  \/ \E c \in Callers : EndCall(c)

SpecCache == InitCache /\ [][NextCache]_vars

\* -------------------------------------------------------- the properties
Bound(rs, r) == \E k \in DOMAIN rs : rs[k].repository = r

\* the version a tour's bindings record for repository r
CommitOf(rs, r) == rs[FindRepo(rs, r)].commit

Referenced(ss, r) == \E j \in DOMAIN ss : ss[j].repository = r

\* I2: every binding is referenced by a stop
I2(tf) == \A k \in DOMAIN tf.repositories :
            Referenced(tf.stops, tf.repositories[k].repository)

Mutating == {"add", "remove", "edit", "move", "reorder", "link"}

\* C1: an add into a repository that the tour binds at a version other than
\* the one the backend reports now, everything else about the call being
\* valid, fails with 203 and leaves the stops and the bindings as they were.
C1_VersionMismatchGuard ==
  [][\A p \in TourPaths : \A l \in LineArgs(p), i \in IndexArgs,
        sid \in {NoId} \cup SuppliedIds :
       ( /\ last'.op = "add"
         /\ verifyLocation(p, l) = OK
         /\ p.repo \in config
         /\ \A k \in DOMAIN repositories :
              repositories[k].repository \in config \cap gitOK
         /\ Bound(repositories, p.repo)
         /\ CommitOf(repositories, p.repo) # getCurrentVersion(p.repo)
         /\ Referenced(stops, p.repo)
         /\ Add(p, l, i, sid) )
       => ( /\ last'.code = 203
            /\ stops' = stops
            /\ repositories' = repositories )]_vars

\* C2: a remove of an id of the tour succeeds and leaves the old list
\* without the first stop of that id, the bindings being exactly the old
\* bindings whose repository a remaining stop references, versions kept; a
\* remove of an id that is not in the tour fails with 0 and changes nothing.
C2_RemovePrunes ==
  [][\A id \in IdArgs :
       (last'.op = "remove" /\ Remove(id)) =>
         IF id \in StopIds
         THEN /\ last'.code = OK
              /\ \E k \in DOMAIN stops :
                   /\ stops[k].id = id
                   /\ \A j \in 1..(k - 1) : stops[j].id # id
                   /\ Len(stops') = Len(stops) - 1
                   /\ \A j \in DOMAIN stops' :
                        stops'[j] = IF j < k THEN stops[j] ELSE stops[j + 1]
              /\ \A r \in Repos :
                   Bound(repositories', r) <=>
                     (Bound(repositories, r) /\ Referenced(stops', r))
              /\ \A r \in Repos :
                   Bound(repositories', r) =>
                     /\ CommitOf(repositories', r) = CommitOf(repositories, r)
                     /\ Cardinality({k \in DOMAIN repositories' :
                                       repositories'[k].repository = r})
                          = Cardinality({k \in DOMAIN repositories :
                                           repositories[k].repository = r})
              /\ generator' = generator
         ELSE /\ last'.code = 0
              /\ stops' = stops
              /\ repositories' = repositories
              /\ generator' = generator]_vars

\* a remove took the last stop of one repository out of a tour that keeps a
\* stop, and a binding, of another
C2_Witness ==
  /\ last.op = "remove"
  /\ last.code = OK
  /\ Len(last.pre.repositories) = 2
  /\ Len(repositories) = 1
  /\ Len(stops) = 1
  /\ Len(last.pre.stops) = 2

\* C3: after a successful move on a tour that satisfied I2, the moved stop's
\* repository is bound and no binding is left without a stop.
C3_MoveKeepsBindings ==
  (last.op = "move" /\ last.code = OK /\ I2(last.pre)) =>
    /\ I2(tfNow)
    /\ \A j \in DOMAIN stops : Bound(repositories, stops[j].repository)

\* C4: a structural mutation that fails leaves the TourFile as it was:
\* stops, bindings and generator.
C4_FailsAtomically ==
  (last.op \in Mutating /\ last.code # OK) => tfNow = last.pre

\* C5 (I1): the repository of every stop has exactly one binding.
C5_OneBindingPerStop ==
  \A j \in DOMAIN stops :
    Cardinality({k \in DOMAIN repositories :
                   repositories[k].repository = stops[j].repository}) = 1

\* a call failed after it had changed a tour whose stops are in two
\* repositories
C5_Witness ==
  /\ last.op \in Mutating
  /\ last.code # OK
  /\ tfNow # last.pre
  /\ Len(stops) = 2
  /\ stops[1].repository # stops[2].repository

\* C6 (I4): no two stops of the tour have the same id.
C6_UniqueIds ==
  \A i, j \in DOMAIN stops : i # j => stops[i].id # stops[j].id

\* the line of content S that has number n
LineAt(S, n) == CHOOSE x \in S : LineNo(S, x) = n

\* the tree of the version that the tour binds for the stop's repository
BoundTree(stop) ==
  history[stop.repository][CommitOf(repositories, stop.repository)]

\* the stop designates a line of its file as the bound version has it
TracksLine(stop) ==
  /\ Bound(repositories, stop.repository)
  /\ stop.relPath = BoundTree(stop).name
  /\ stop.line \in 1..Cardinality(BoundTree(stop).lines)

TrackedLine(stop) == LineAt(BoundTree(stop).lines, stop.line)

\* the stop's file is in tree b, under its own name or renamed
FileIn(stop, b) ==
  /\ b.name \in Names
  /\ b.name = stop.relPath \/ Similar(BoundTree(stop).lines, b.lines)

Sentinel(stop) == stop.line = 0 /\ stop.relPath = ""

\* C7: a successful refresh of a repository bound at a version A other than
\* its current version B leaves the binding at B; a stop of a line that is
\* still in its file at B gets the line computeDelta gives for the committed
\* diff A..B and the name the file has at B; a stop of a file that A does not
\* hold keeps its position.
C7_RefreshTranslates ==
  [][( /\ last'.op = "refresh"
       /\ Refresh("r1")
       /\ last'.code = OK
       /\ Bound(repositories, "r1")
       /\ CommitOf(repositories, "r1") # HeadOf("r1") )
     => LET A == CommitOf(repositories, "r1")
            b == history["r1"][HeadOf("r1")]
        IN  /\ CommitOf(repositories', "r1") = HeadOf("r1")
            /\ Len(repositories') = Len(repositories)
            /\ \A i \in DOMAIN stops :
                 /\ ( /\ TracksLine(stops[i])
                      /\ FileIn(stops[i], b)
                      /\ TrackedLine(stops[i]) \in b.lines )
                    => /\ stops'[i].line =
                            computeDelta(
                              getChangesForFile(A, stops[i].relPath, "r1"),
                              stops[i].line)
                       /\ stops'[i].relPath = b.name
                 /\ stops[i].relPath \in Names \ {history["r1"][A].name}
                    => stops'[i] = stops[i]]_vars

\* the refresh of the README: a stop at line 1 of a one-line file that has
\* gained a line before and a line after is at line 2, the binding at B
C7_Witness ==
  /\ last.op = "refresh"
  /\ last.code = OK
  /\ history["r1"] = <<Tree("f", {2}), Tree("f", {1, 2, 3})>>
  /\ Len(stops) >= 1
  /\ last.pre.stops[1].line = 1
  /\ last.pre.repositories[1].commit = 1
  /\ stops[1].line = 2
  /\ stops[1].relPath = "f"
  /\ repositories[1].commit = 2

\* C8: refresh keeps the number, the order and the ids of the stops, with
\* their titles, bodies and child links; a stop whose line is in the
\* deletions of the committed diff gets line 0 and relPath ""; and a stop at
\* that sentinel position never resolves as Located.
C8_RefreshKeepsStops ==
  /\ [](\A i \in DOMAIN stops :
          Sentinel(stops[i]) =>
            resolveStop(tfNow, stops[i]).kind = "broken")
  /\ [][(last'.op = "refresh" /\ Refresh("r1"))
        => /\ Len(stops') = Len(stops)
           /\ \A i \in DOMAIN stops :
                /\ BaseFields(stops'[i]) = BaseFields(stops[i])
                /\ stops'[i].repository = stops[i].repository
                /\ ( /\ last'.code = OK
                     /\ Bound(repositories, "r1")
                     /\ CommitOf(repositories, "r1") # HeadOf("r1")
                     /\ Includes(
                          getChangesForFile(CommitOf(repositories, "r1"),
                                            stops[i].relPath, "r1").deletions,
                          stops[i].line) )
                   => stops'[i] =
                        [stops[i] EXCEPT !.line = 0, !.relPath = ""]]_vars

\* a refresh put one stop of two at the sentinel position and moved or kept
\* the other
C8_Witness ==
  /\ last.op = "refresh"
  /\ last.code = OK
  /\ Len(stops) = 2
  /\ \E i, j \in DOMAIN stops :
       /\ last.pre.stops[i].line >= 1
       /\ Sentinel(stops[i])
       /\ stops[j].line >= 1
       /\ stops[j].relPath \in Names

\* C9: a stop of a line that the working copy of its file no longer has
\* resolves as Broken with reasons exactly [LineNotFound], whether or not
\* the deletion is committed; once a refresh has put it at the sentinel
\* position it still resolves as Broken.
C9_DeletedLineStaysBroken ==
  \A i \in DOMAIN stops :
    /\ ( /\ TracksLine(stops[i])
         /\ wc[stops[i].repository].name = stops[i].relPath
         /\ TrackedLine(stops[i]) \notin wc[stops[i].repository].lines )
       => resolveStop(tfNow, stops[i]) =
            makeBroken(stops[i], <<"LineNotFound">>)
    /\ ( /\ Sentinel(stops[i])
         /\ Bound(repositories, stops[i].repository) )
       => resolveStop(tfNow, stops[i]).kind = "broken"

\* the line of a stop was deleted, the deletion committed, and a resolve
\* reported the stop Broken for a line that is not found
C9_Witness ==
  /\ last.op = "resolve"
  /\ last.code = OK
  /\ HeadOf("r1") = 2
  /\ \E i \in DOMAIN stops :
       /\ TracksLine(stops[i])
       /\ CommitOf(repositories, "r1") = 1
       /\ TrackedLine(stops[i]) \notin history["r1"][2].lines
       /\ history["r1"][2].name = stops[i].relPath
       /\ wc["r1"] = history["r1"][2]
       /\ last.out[i].kind = "broken"
       /\ last.out[i].errors = <<"LineNotFound">>

\* C10: a stop of a mapped and bound repository whose file is in the working
\* copy under its name, with the line it tracks still in it, resolves as
\* Located.
C10_BrokenPrecisely ==
  \A i \in DOMAIN stops :
    ( /\ stops[i].repository \in config \cap gitOK
      /\ TracksLine(stops[i])
      /\ wc[stops[i].repository].name = stops[i].relPath
      /\ TrackedLine(stops[i]) \in wc[stops[i].repository].lines )
    => resolveStop(tfNow, stops[i]).kind = "located"

\* C11: when an add of path p and line n succeeds, a resolve of the tour it
\* leaves, the repository and the working copy being as they were, returns
\* the new stop as Located at path p and line n, also when the file had
\* uncommitted edits at the time of the add.
C11_AddThenResolve ==
  [][\A p \in TrackPaths : \A n \in LineArgs(p) :
       ( /\ last'.op = "add"
         /\ last'.code = OK
         /\ Add(p, n, Null, NoId) )
       => LET located == resolveStop(tfNow, stops[Len(stops)])'
          IN  /\ located.kind = "located"
              /\ located.absPath = p
              /\ located.line = n]_vars

\* C12: resolve leaves the TourFile as it was, stops with their lines and
\* relPaths, bindings and generator, whether it returns or throws.
C12_ResolveReadOnly ==
  [][(last'.op = "resolve" /\ Resolve)
     => /\ stops' = stops
        /\ repositories' = repositories
        /\ generator' = generator
        /\ last'.pre = tfNow]_vars

\* a resolve returned on a tour whose binding is behind the repository, and
\* a resolve threw on a tour of two stops
C12_Witness ==
  /\ last.op = "resolve"
  /\ Len(stops) = 2
  /\ \/ /\ last.code = OK
        /\ \E k \in DOMAIN repositories :
             repositories[k].commit # HeadOf(repositories[k].repository)
     \/ last.code # OK

\* C13: a resolve of a tour one of whose stops is in a repository that is not
\* mapped, or has no binding, does not throw: it returns one entry for every
\* stop, that stop's entry being Broken.
C13_ResolveReportsAsData ==
  ( /\ last.op = "resolve"
    /\ \A i \in DOMAIN stops : stops[i].repository \in gitOK )
  => /\ last.code = OK
     /\ Len(last.out) = Len(stops)
     /\ \A i \in DOMAIN stops :
          (stops[i].repository \notin config
             \/ ~Bound(repositories, stops[i].repository))
          => last.out[i].kind = "broken"

DeltaOps == {"computeDelta", "undoDelta"}

\* C14: for a FileChanges whose deletions and moves keys are disjoint and a
\* line l >= 1 that is in neither additions nor deletions,
\* computeDelta(undoDelta(l)) = l when undoDelta(l) is a number, and
\* undoDelta(computeDelta(l)) = l when computeDelta(l) is a number.
C14_DeltaInverse ==
  LET c == last.pre.changes
      l == last.pre.line
  IN  ( /\ last.op \in DeltaOps
        /\ \A i \in DOMAIN c.moves : ~Includes(c.deletions, c.moves[i][1])
        /\ l >= 1
        /\ ~Includes(c.additions, l)
        /\ ~Includes(c.deletions, l)
        /\ last.out # Null )
      => IF last.op = "undoDelta" THEN computeDelta(c, last.out) = l
         ELSE undoDelta(c, last.out) = l

\* C15: for a key k of moves whose value moves[k] is not in additions,
\* undoDelta(moves[k]) = k.
C15_UndoDeltaInvertsMoves ==
  LET c == last.pre.changes
      l == last.pre.line
  IN  last.op = "undoDelta" =>
        \A i \in DOMAIN c.moves :
          (c.moves[i][2] = l /\ ~Includes(c.additions, l))
          => last.out = c.moves[i][1]

\* the shift as the specification words it: the deletions at or before the
\* line are subtracted, then the additions are scanned in ascending numeric
\* order up to the first one at or past the running position
ShiftAsSpecified(changes, line) ==
  ShiftLoop(SetToSeq(Range(changes.additions)), 1,
            line - Cardinality({i \in DOMAIN changes.deletions :
                                  changes.deletions[i] <= line}))

\* C16: for a line that is neither deleted nor a key of moves, computeDelta
\* returns the line shifted as specified.
C16_ComputeDeltaShift ==
  LET c == last.pre.changes
      l == last.pre.line
  IN  ( /\ last.op = "computeDelta"
        /\ l >= 1
        /\ ~Includes(c.deletions, l)
        /\ ~MapHas(c.moves, l) )
      => last.out = ShiftAsSpecified(c, l)

\* C17: computeDelta returns null for a line in deletions, also when the
\* line is a key of moves.
C17_DeletedLineIsNull ==
  ( /\ last.op = "computeDelta"
    /\ Includes(last.pre.changes.deletions, last.pre.line) )
  => last.out = Null

\* computeDelta returned null for a deleted line that is a key of moves too
C17_Witness ==
  /\ last.op = "computeDelta"
  /\ Includes(last.pre.changes.deletions, last.pre.line)
  /\ MapHas(last.pre.changes.moves, last.pre.line)
  /\ last.out = Null

\* C18: with no additions, deletions or moves, computeDelta(l) = l and
\* undoDelta(l) = l for every line l >= 1.
C18_IdentityDiff ==
  ( /\ last.op \in DeltaOps
    /\ last.pre.changes = FileChanges(<<>>, <<>>, <<>>, "f")
    /\ last.pre.line >= 1 )
  => last.out = last.pre.line

\* undoDelta returned the last line as it is for the empty FileChanges
C18_Witness ==
  /\ last.op = "undoDelta"
  /\ last.pre.changes = FileChanges(<<>>, <<>>, <<>>, "f")
  /\ last.pre.line = MaxDeltaLine
  /\ last.out = MaxDeltaLine

\* C19: computeDelta and undoDelta fail for a line of 0 or less.
C19_RejectsNonPositiveLine ==
  (last.op \in DeltaOps /\ last.pre.line <= 0) => last.code # OK

\* the (version, repository, dirty flag) keys of the stops of a tour
SessionKeys(tf) ==
  {<<tf.repositories[FindRepo(tf.repositories,
                              tf.stops[i].repository)].commit,
     tf.stops[i].repository>> :
     i \in {j \in DOMAIN tf.stops :
              FindRepo(tf.repositories, tf.stops[j].repository) # 0}}

\* C20: one resolve call, and one refresh call, runs the diff of a
\* (version, repository, dirty flag) key at most once, however many stops
\* share the key.
C20_OneDiffPerKey ==
  /\ last.op = "resolve" => last.diffs <= Cardinality(SessionKeys(last.pre))
  /\ last.op = "refresh" => last.diffs <= 1

\* C21: the diff cache is inactive whenever no resolve or refresh is in
\* progress: every call, one that ends with an error included, leaves the
\* cache inactive when it returns or throws.
C21_CacheInactiveBetweenCalls == ~last.cache.started

\* C22: overlapping calls do not disturb each other's cache scope: from its
\* start to its end a call finds the cache active and holding the Map that
\* its own start created.
C22_OwnScopeWhileRunning ==
  last.op \in {"start", "diff", "end"} =>
    \A c \in Callers :
      process.calls[c].pc = "awaiting" =>
        /\ process.cache.map.started
        /\ process.cache.ref = c

\* C23: a tour file built by init and add survives serialization: reading
\* back what serializeTourFile wrote succeeds and gives the same stops,
\* bindings and generator, and the tour itself is as it was.
C23_RoundTrip ==
  last.op = "serde" =>
    /\ last.code = OK
    /\ last.out = last.pre
    /\ tfNow = last.pre

\* C24: deserializeTourFile tells its failures apart: 400 for a text that is
\* not JSON, 401 for a JSON document that is not a valid tour file.
C24_DistinctFailures ==
  last.op = "deserializeTourFile" =>
    /\ ~last.out.json.parses => last.code = 400
    /\ (last.out.json.parses /\ ~validTourFile(last.out.json.value))
         => last.code = 401

\* C25: scramble with every index in range replaces the stops by the stops
\* at those indices; with an index that is too large or negative it fails
\* and leaves the stops as they were.
C25_ScrambleAllOrNothing ==
  last.op = "scramble" =>
    IF \A k \in DOMAIN last.out.indices :
         last.out.indices[k] \in 0..(Len(last.pre.stops) - 1)
    THEN /\ last.code = OK
         /\ stops = [k \in DOMAIN last.out.indices |->
                       last.pre.stops[last.out.indices[k] + 1]]
    ELSE /\ last.code # OK
         /\ stops = last.pre.stops

\* a root without its trailing separator
Bare(root) ==
  IF root # <<>> /\ root[Len(root)] = Sep
  THEN SubSeq(root, 1, Len(root) - 1)
  ELSE root

\* the root covers the path on a component boundary
Covers(root, path) == StartsWith(path, Append(Bare(root), Sep))

CoveringEntries(index, path) ==
  {i \in DOMAIN index : Covers(index[i].root, path)}

\* C26: when several mapped roots contain a path, toRelativePath gives it
\* to the repository with the longest root, relative to that root.
C26_LongestPrefix ==
  (last.op = "toRelativePath" /\ last.out # NoRelativePath) =>
    \E i \in CoveringEntries(last.pre.index, last.pre.path) :
      /\ last.pre.index[i].repo = last.out.repository
      /\ \A j \in CoveringEntries(last.pre.index, last.pre.path) :
           Len(Bare(last.pre.index[j].root))
             <= Len(Bare(last.pre.index[i].root))
      /\ Append(Bare(last.pre.index[i].root), Sep) \o last.out.path
           = last.pre.path

\* C27: a root covers a path only on a component boundary: the result names
\* a repository whose root, followed by a separator, starts the path, and
\* it is null exactly when no root does.
C27_ComponentBoundary ==
  last.op = "toRelativePath" =>
    /\ last.out # NoRelativePath =>
         \E i \in CoveringEntries(last.pre.index, last.pre.path) :
           last.pre.index[i].repo = last.out.repository
    /\ CoveringEntries(last.pre.index, last.pre.path) = {}
         <=> last.out = NoRelativePath

\* a root that is a prefix of the path inside a component, and no result
C27_Witness ==
  /\ last.op = "toRelativePath"
  /\ last.out = NoRelativePath
  /\ \E i \in DOMAIN last.pre.index :
       /\ StartsWith(last.pre.path, Bare(last.pre.index[i].root))
       /\ Len(last.pre.path) > Len(Bare(last.pre.index[i].root))

C29_AddDocumentedCodes ==
  last.op = "add" => last.code \in {OK, 100, 101, 200, 201, 202, 203}

\* the stop at index i of the tour has a problem: its repository is not
\* mapped or not bound, or its location is not a line of a readable file
HasProblem(tf, i) ==
  \/ tf.stops[i].repository \notin config
  \/ FindRepo(tf.repositories, tf.stops[i].repository) = 0
  \/ verifyLocation([repo |-> tf.stops[i].repository,
                     name |-> tf.stops[i].relPath], tf.stops[i].line) # OK

\* C30: check returns, and its list holds an error for every stop whose
\* repository is unmapped or unbound or whose location is invalid, and is
\* empty when no stop has such a problem.
C30_CheckReportsEveryStop ==
  last.op = "check" =>
    /\ last.code = OK
    /\ \A i \in DOMAIN last.pre.stops :
         HasProblem(last.pre, i) => \E e \in last.out.errors : e.stop = i
    /\ (\A i \in DOMAIN last.pre.stops : ~HasProblem(last.pre, i))
         => last.out.errors = {}

\* C31: a successful resolve returns exactly one entry per stop, in the order
\* of the stops: entry i carries the id, title, body and child links of stop
\* i, in whatever order the per-stop lookups settle.
C31_ResolveKeepsOrder ==
  (last.op = "resolve" /\ last.code = OK) =>
    /\ Len(last.out) = Len(last.pre.stops)
    /\ \A i \in DOMAIN last.pre.stops :
         /\ last.out[i].kind \in {"located", "broken"}
         /\ last.out[i].base = BaseFields(last.pre.stops[i])

C31_Witness ==
  /\ last.op = "resolve" /\ last.code = OK
  /\ Len(last.out) = 2
  /\ last.out[1].base.id # last.out[2].base.id
  /\ last.out[1].base = BaseFields(last.pre.stops[1])
  /\ last.out[2].base = BaseFields(last.pre.stops[2])

\* C32: a successful move keeps the number of stops and the id, title, body
\* and child links of the stop at every index, the moved stop's included;
\* the moved stop gets the repository and the relPath of the new position,
\* and its line when the working copy is at the committed version.
C32_MoveFrame ==
  [][(last'.op = "move" /\ last'.code = OK) =>
       /\ Len(stops') = Len(stops)
       /\ \A i \in DOMAIN stops :
            BaseFields(stops'[i]) = BaseFields(stops[i])
       /\ \A id \in StopIds, p \in TourPaths : \A l \in LineArgs(p) :
            Move(id, p, l) =>
              With(FindStop(stops, id), LAMBDA index :
                /\ stops'[index].repository = toRelativePath(p).repository
                /\ stops'[index].relPath = toRelativePath(p).path
                /\ wc[p.repo] = history[p.repo][HeadOf(p.repo)]
                     => stops'[index].line = l)]_vars

\* the first of two stops, with a changed title or a child link, was moved
\* into the other repository
C32_Witness ==
  /\ last.op = "move" /\ last.code = OK
  /\ Len(stops) = 2
  /\ stops[1].id # stops[2].id
  /\ stops[1].title = "t2" \/ stops[1].childStops # <<>>
  /\ stops[1].repository # last.pre.stops[1].repository

Ids(ss) == [i \in DOMAIN ss |-> ss[i].id]

\* C33: a successful add returns the id of the new stop and inserts exactly
\* one stop: last when the index is null or at or beyond the length of the
\* list, at position index when 0 <= index <= length; the stops that were
\* there keep their ids and their relative order.
C33_AddInsertsAtIndex ==
  [][(last'.op = "add" /\ last'.code = OK) =>
       \A p \in TourPaths, i \in InsertArgs : \A l \in LineArgs(p) :
         AddAt(p, l, i) =>
           With(IF i = Null \/ i >= Len(stops) THEN Len(stops) + 1 ELSE i + 1,
                LAMBDA k :
             /\ Len(stops') = Len(stops) + 1
             /\ stops'[k].id = last'.out
             /\ RemoveAt(Ids(stops'), k) = Ids(stops))]_vars

\* a stop was added between two others
C33_Witness ==
  /\ last.op = "add" /\ last.code = OK
  /\ Len(stops) = 3 /\ Len(last.pre.stops) = 2
  /\ stops[2].id = last.out
  /\ stops[1] = last.pre.stops[1] /\ stops[3] = last.pre.stops[2]

\* C34: a successful reorder puts the named stop at newIndex and keeps the
\* other stops in their order, so the list is a permutation of the old one;
\* the bindings are unchanged; with newIndex outside 0..len-1 or an unknown
\* stopId reorder fails and leaves the list unchanged.
C34_ReorderPermutes ==
  [][last'.op = "reorder" =>
       \A id \in IdArgs, n \in -1..Len(stops) :
         Reorder(id, n) =>
           /\ repositories' = repositories
           /\ IF n < 0 \/ n >= Len(stops) \/ id \notin StopIds
              THEN last'.code # OK /\ stops' = stops
              ELSE /\ last'.code = OK
                   /\ Len(stops') = Len(stops)
                   /\ stops'[n + 1] = stops[FindStop(stops, id)]
                   /\ RemoveAt(stops', n + 1) =
                        RemoveAt(stops, FindStop(stops, id))]_vars

\* the last of three stops was moved to the front
C34_Witness ==
  /\ last.op = "reorder" /\ last.code = OK
  /\ Len(stops) = 3
  /\ stops[1].id # stops[2].id /\ stops[2].id # stops[3].id
  /\ stops[1].id # stops[3].id
  /\ stops = <<last.pre.stops[3], last.pre.stops[1], last.pre.stops[2]>>

\* C35: a refresh that fails leaves no stop translated: the stops and the
\* bindings are those the call was entered with.
C35_FailedRefreshKeepsStops ==
  (last.op = "refresh" /\ last.code # OK) =>
    /\ stops = last.pre.stops
    /\ repositories = last.pre.repositories

\* the working copy of repository r is the tree of its current version
Clean(r) == wc[r] = history[r][HeadOf(r)]

\* C36: with a clean working copy at the current version, every stop that
\* resolves as Located before refresh resolves as Located with the same
\* absPath and line after it.
C36_RefreshKeepsTargets ==
  [][(last'.op = "refresh" /\ Refresh("r1") /\ Clean("r1")) =>
       \A i \in DOMAIN stops :
         With(resolveStop(tfNow, stops[i]), LAMBDA before :
           before.kind = "located" =>
             resolveStop(TourFile(stops', repositories', generator'),
                         stops'[i]) = before)]_vars

\* a refresh over a clean working copy advanced the binding and moved a
\* stop that resolves as Located to another line
C36_Witness ==
  /\ last.op = "refresh" /\ last.code = OK
  /\ Clean("r1")
  /\ repositories[1].commit # last.pre.repositories[1].commit
  /\ \E i \in DOMAIN stops :
       /\ stops[i].line # last.pre.stops[i].line
       /\ resolveStop(tfNow, stops[i]).kind = "located"

\* C37: the version that a refresh writes to the binding is the version
\* against which every stop of the repository was translated, also when a
\* commit lands while the refresh runs.
C37_BindingIsTranslationTarget ==
  ( /\ last.op = "refresh" /\ last.code = OK
    /\ Bound(last.pre.repositories, "r1")
    /\ CommitOf(repositories, "r1") # CommitOf(last.pre.repositories, "r1") )
  => \A i \in DOMAIN stops :
       stops[i].repository = "r1" =>
         stops[i] = RefreshStopAt(last.pre.stops[i],
                                  CommitOf(last.pre.repositories, "r1"),
                                  history["r1"][CommitOf(repositories, "r1")])

\* C38: refresh(tf, R) leaves every stop of another repository and every
\* binding of another repository as it was, and keeps the id, title, body
\* and child links of the stops of R.
C38_RefreshFrame ==
  [][last'.op = "refresh" =>
       \A r \in Repos :
         Refresh(r) =>
           /\ Len(stops') = Len(stops)
           /\ \A i \in DOMAIN stops :
                /\ stops[i].repository # r => stops'[i] = stops[i]
                /\ BaseFields(stops'[i]) = BaseFields(stops[i])
           /\ Len(repositories') = Len(repositories)
           /\ \A k \in DOMAIN repositories :
                repositories[k].repository # r =>
                  repositories'[k] = repositories[k]]_vars

\* a refresh advanced the binding of one repository of a tour with stops in
\* two, while the other repository has a newer version than its binding
C38_Witness ==
  /\ last.op = "refresh" /\ last.code = OK
  /\ Len(repositories) = 2
  /\ \E k \in DOMAIN repositories :
       /\ repositories[k].commit # last.pre.repositories[k].commit
       /\ \E j \in DOMAIN repositories :
            /\ j # k
            /\ repositories[j].commit # HeadOf(repositories[j].repository)
            /\ Referenced(stops, repositories[j].repository)

\* C39: a refresh that directly follows a successful refresh of the same
\* repository, the repository unchanged in between, leaves the TourFile as
\* the first left it and runs no diff.
C39_RefreshIdempotent ==
  [][(last.op = "refresh" /\ last.code = OK /\ Refresh("r1")) =>
       /\ last'.code = OK
       /\ last'.diffs = 0
       /\ stops' = stops
       /\ repositories' = repositories
       /\ generator' = generator]_vars

\* the second of two refreshes over stops of a repository whose binding
\* is past its first version
C39_Witness ==
  /\ last.op = "refresh" /\ last.code = OK
  /\ last.pre = tfNow
  /\ last.diffs = 0
  /\ Len(stops) = 2
  /\ CommitOf(repositories, "r1") = HeadOf("r1")
  /\ HeadOf("r1") > 1
  /\ \E i \in DOMAIN stops : stops[i].line > 1

\* C40: a line that lies before every added and every deleted line and is
\* not a key of moves is mapped to itself by computeDelta and by undoDelta.
C40_LineBeforeChangesFixed ==
  LET c == last.pre.changes
      l == last.pre.line
  IN  ( /\ last.op \in {"computeDelta", "undoDelta"}
        /\ l >= 1
        /\ \A i \in DOMAIN c.additions : l < c.additions[i]
        /\ \A i \in DOMAIN c.deletions : l < c.deletions[i]
        /\ ~MapHas(c.moves, l) )
      => last.out = l

====
